---- MODULE Spec2Model ----
(***************************************************************************)
(* Task lifecycle and queue scheduling of the video downloader backend     *)
(* (src/main.py, FastAPI; src/app.py is the same logic under Quart).       *)
(*                                                                         *)
(* The program runs on one asyncio event loop.  A handler or coroutine    *)
(* runs without interruption between two suspension points, so one action *)
(* is one such run:                                                        *)
(*   Submit        create_download_task, whole handler (its only await is  *)
(*                 process_next_in_queue, which never suspends)            *)
(*   StartDownload download_video from its first line to the await of      *)
(*                 run_in_executor (or through except/finally on a raise)  *)
(*   FetchReturn   download_video from the return of run_in_executor to    *)
(*                 the end of its finally block                            *)
(*   Cancel        cancel_task, whole handler                              *)
(*   ReaperCycle   one iteration of the loop of cleanup_old_files          *)
(*   Tick          the wall clock (datetime.now()) advancing by one hour   *)
(***************************************************************************)
EXTENDS Integers, Sequences, FiniteSets, TLC

VARIABLES
  tasks,               \* main.py:39  task id -> task record
  queue,               \* main.py:40  sequence of task ids
  processing_task_id,  \* main.py:41  id or None
  ready,               \* download_video coroutines created by asyncio.create_task
                       \* and not yet started, in creation order
  fetching,            \* ids whose download_video awaits run_in_executor
  dirs,                \* ids whose directory DOWNLOAD_DIR / id exists
  now,                 \* datetime.now(), in hours
  nextId,              \* the next fresh uuid4
  resp,                \* the last step taken: op, the HTTP status code (for a
                       \* return of the Fetcher: 1 if it raised), the id it was
                       \* about (for the Reaper: the id whose rmtree raised), n,
                       \* the number of records a Reaper cycle deleted, and log,
                       \* the writes download_video made to the task's status
                       \* and progress, in order
  terminal_at,         \* history: when each stored task's status became terminal
  escaped              \* history: ids whose download_video ended with an
                       \* exception that left the coroutine

vars == <<tasks, queue, processing_task_id, ready, fetching, dirs, now, nextId,
          resp, terminal_at, escaped>>

\* ------------------------------------------------------------- constants
MAX_QUEUE_SIZE == 5
CLEANUP_AFTER_HOURS == 2
MAX_QUALITY == 720

None == 0

\* --------------------------------------------------------------- bounds
MaxTasks == 3       \* task ids issued under Spec
MaxTasksL == 3      \* task ids issued under LiveSpec
MaxTasksQ == 7      \* task ids issued under QueueSpec
MaxTasksV == 2      \* task ids issued under QualitySpec
MaxTime == 4        \* last hour of the clock (the clock starts at 1)

\* Sample request bodies.
Urls == {"https://www.youtube.com/watch?v=x", "https://example.org/x"}
UrlsQ == {"https://www.youtube.com/watch?v=x"}
Qualities == {1080}
QualitiesV == {144, 720, 1080}

Terminal == {"completed", "error"}

\* ------------------------------------------------------ pure functions

\* The needles of detect_platform that occur in url.lower().
Needles(url) ==
  CASE url = "https://www.youtube.com/watch?v=x" -> {"youtube.com"}
    [] url = "https://youtu.be/x" -> {"youtu.be"}
    [] url = "https://VK.com/video1" -> {"vk.com"}
    [] url = "https://vkvideo.ru/x" -> {"vkvideo.ru"}
    [] url = "https://www.instagram.com/p/x" -> {"instagram.com"}
    [] url = "https://example.org/?from=instagram.com&to=vk.com" -> {"instagram.com", "vk.com"}
    [] OTHER -> {}

\* detect_platform with 'instagram' as the answer for every other url.
detect_platform_no_unknown(url) ==
  IF "youtube.com" \in Needles(url) \/ "youtu.be" \in Needles(url) THEN "youtube"
  ELSE IF "vk.com" \in Needles(url) \/ "vkvideo.ru" \in Needles(url) THEN "vk"
  ELSE "instagram"

detect_platform(url) ==
  IF "youtube.com" \in Needles(url) \/ "youtu.be" \in Needles(url) THEN "youtube"
  ELSE IF "vk.com" \in Needles(url) \/ "vkvideo.ru" \in Needles(url) THEN "vk"
  ELSE IF "instagram.com" \in Needles(url) THEN "instagram"
  ELSE "unknown"

\* The requested quality without the ceiling.
Min_first(a, b) == a

Min(a, b) == IF a < b THEN a ELSE b

\* ------------------------------------------------------- store helpers

\* tasks[id] = rec
Put(ts, id, rec) == [t \in DOMAIN ts \cup {id} |-> IF t = id THEN rec ELSE ts[t]]

\* del tasks[id]
Del(ts, ids) == [t \in DOMAIN ts \ ids |-> ts[t]]

\* cancel_task without its queue.remove.
Remove_noop(q, id) == q

\* cancel_task with queue.pop(0) for queue.remove(task_id).
Remove_head(q, id) == IF q = <<>> THEN q ELSE Tail(q)

\* queue.remove(id): removes the first occurrence
RECURSIVE Remove(_, _)
Remove(q, id) ==
  IF q = <<>> THEN <<>>
  ELSE IF Head(q) = id THEN Tail(q)
  ELSE <<Head(q)>> \o Remove(Tail(q), id)

Range(q) == {q[i] : i \in 1..Len(q)}

\* The task has no 'error' key.
NoError == ""

\* The task has no 'video_info' key.
NoVideoInfo == [quality |-> ""]

\* The task dict of create_download_task; a key the dict does not hold yet
\* (completed_at, file_path, error, video_info) is None, NoError or NoVideoInfo.
NewTask(id, url, quality) ==
  [task_id |-> id, url |-> url, quality |-> quality, status |-> "queued",
   progress |-> 0, completed_at |-> None, error |-> NoError,
   video_info |-> NoVideoInfo, file_path |-> None]

Last(q) == q[Len(q)]

\* tasks[task_id][...] = ... for every key download_video writes: the record
\* becomes rec.  tasks[task_id] raises KeyError for an id the store does not
\* hold, and nothing is written.
\* tasks.setdefault(task_id, {...}) before the write: a missing record is
\* created again.
store_upsert(ts, id, rec) ==
  IF id \in DOMAIN ts THEN [ts EXCEPT ![id] = rec]
  ELSE Put(ts, id, [NewTask(id, "", MAX_QUALITY) EXCEPT !.status = "error"])

store(ts, id, rec) == IF id \in DOMAIN ts THEN [ts EXCEPT ![id] = rec] ELSE ts

\* ------------------------------------------------------------ scheduler

\* process_next_in_queue with the LIFO slip queue.pop() for queue.pop(0).
process_next_in_queue_lifo(p, q, ts, rdy) ==
  IF p = None /\ q # <<>>
  THEN LET next_task_id == q[Len(q)]
       IN [queue |-> SubSeq(q, 1, Len(q) - 1),
           ready |-> IF next_task_id \in DOMAIN ts /\ ts[next_task_id].status = "queued"
                     THEN Append(rdy, next_task_id) ELSE rdy]
  ELSE [queue |-> q, ready |-> rdy]

\* process_next_in_queue: the queue and the created coroutines after the call.
process_next_in_queue(p, q, ts, rdy) ==
  IF p = None /\ q # <<>>
  THEN LET next_task_id == Head(q)
       IN [queue |-> Tail(q),
           ready |-> IF next_task_id \in DOMAIN ts /\ ts[next_task_id].status = "queued"
                     THEN Append(rdy, next_task_id) ELSE rdy]
  ELSE [queue |-> q, ready |-> rdy]

\* create_download_task without the capacity test.
queue_full_never(q) == FALSE

\* The admission gate with the off-by-one slip > for >=.
queue_full_strict(q) == Len(q) > MAX_QUEUE_SIZE

\* if len(queue) >= MAX_QUEUE_SIZE
queue_full(q) == Len(q) >= MAX_QUEUE_SIZE

\* A finally block that clears the marker and forgets to advance.
finally_block_no_advance(q, ts, rdy) == [queue |-> q, ready |-> rdy]

\* download_video's finally: processing_task_id = None, then process_next_in_queue().
finally_block(q, ts, rdy) == process_next_in_queue(None, q, ts, rdy)

\* ------------------------------------------------------------- actions

Init ==
  /\ tasks = [t \in {} |-> None]
  /\ queue = <<>>
  /\ processing_task_id = None
  /\ ready = <<>>
  /\ fetching = {}
  /\ dirs = {}
  /\ now = 1
  /\ nextId = 1
  /\ resp = [op |-> "init", code |-> 0, id |-> None, n |-> 0, log |-> <<>>]
  /\ terminal_at = [t \in {} |-> None]
  /\ escaped = {}

\* POST /api/download
Submit(url, quality, maxIds) ==
  IF queue_full(queue)
  THEN /\ resp' = [op |-> "submit", code |-> 429, id |-> None, n |-> 0, log |-> <<>>]
       /\ UNCHANGED <<tasks, queue, processing_task_id, ready, fetching, dirs, now,
                      nextId, terminal_at, escaped>>
  ELSE /\ nextId <= maxIds
       /\ LET task_id == nextId
              ts == Put(tasks, task_id, NewTask(task_id, url, quality))
              q == Append(queue, task_id)
              nxt == IF processing_task_id = None
                     THEN process_next_in_queue(processing_task_id, q, ts, ready)
                     ELSE [queue |-> q, ready |-> ready]
          IN /\ tasks' = ts
             /\ queue' = nxt.queue
             /\ ready' = nxt.ready
             /\ nextId' = nextId + 1
             /\ resp' = [op |-> "submit", code |-> 200, id |-> task_id, n |-> 0, log |-> <<>>]
       /\ UNCHANGED <<processing_task_id, fetching, dirs, now, terminal_at, escaped>>

\* f"{min(quality, MAX_QUALITY)}p"
quality_label(quality) == ToString(Min(quality, MAX_QUALITY)) \o "p"

\* The status and progress of the record after each write download_video makes
\* from its first line to the await of run_in_executor (lines 142-163), or to
\* the except block (line 199) for an unsupported url.
\* download_video with the platform test moved above line 142: an unknown url
\* fails before 'processing' is written.
begin_download_skip_processing(rec) ==
  IF detect_platform(rec.url) = "unknown"
  THEN << [status |-> "error", progress |-> rec.progress] >>
  ELSE << [status |-> "processing", progress |-> rec.progress],
          [status |-> "processing", progress |-> 10],
          [status |-> "processing", progress |-> 20],
          [status |-> "processing", progress |-> 30] >>

begin_download(rec) ==
  IF detect_platform(rec.url) = "unknown"
  THEN << [status |-> "processing", progress |-> rec.progress],
          [status |-> "processing", progress |-> 10],
          [status |-> "error", progress |-> 10] >>
  ELSE << [status |-> "processing", progress |-> rec.progress],
          [status |-> "processing", progress |-> 10],
          [status |-> "processing", progress |-> 20],
          [status |-> "processing", progress |-> 30] >>

\* download_video with an except block that also writes progress 0.
resume_download_reset(rec, ok) ==
  IF ok
  THEN << [status |-> rec.status, progress |-> 90],
          [status |-> "completed", progress |-> 90],
          [status |-> "completed", progress |-> 100] >>
  ELSE << [status |-> "error", progress |-> 0] >>

\* The same after run_in_executor returned (lines 175-196) or raised (line 199).
resume_download(rec, ok) ==
  IF ok
  THEN << [status |-> rec.status, progress |-> 90],
          [status |-> "completed", progress |-> 90],
          [status |-> "completed", progress |-> 100] >>
  ELSE << [status |-> "error", progress |-> rec.progress] >>

\* download_video(id) starts: the first coroutine asyncio created runs to its
\* first suspension point.
StartDownload ==
  /\ ready # <<>>
  /\ LET id == Head(ready)
         known == id \in DOMAIN tasks
         log == IF known THEN begin_download(tasks[id]) ELSE <<>>
         failed == known /\ Last(log).status = "error"
         rec == [tasks[id] EXCEPT !.status = Last(log).status,
                                  !.progress = Last(log).progress,
                                  !.error = IF failed THEN "unsupported" ELSE @]
         ts == store(tasks, id, rec)
         fin == finally_block(queue, ts, Tail(ready))
     IN /\ tasks' = ts
        /\ IF known /\ ~failed
           THEN \* lines 142-173: suspended on run_in_executor
                /\ processing_task_id' = id
                /\ dirs' = dirs \cup {id}
                /\ fetching' = fetching \cup {id}
                /\ ready' = Tail(ready)
                /\ UNCHANGED <<queue, terminal_at, escaped>>
           ELSE \* known: raise Exception at line 149, caught at line 198;
                \* otherwise tasks[task_id] raises KeyError at line 142 and, in
                \* the except block, again at line 199.  Then the finally block.
                /\ processing_task_id' = None
                /\ queue' = fin.queue
                /\ ready' = fin.ready
                /\ terminal_at' = (IF known THEN Put(terminal_at, id, now) ELSE terminal_at)
                /\ escaped' = (IF known THEN escaped ELSE escaped \cup {id})
                /\ UNCHANGED <<fetching, dirs>>
        /\ resp' = [op |-> "start", code |-> 0, id |-> id, n |-> 0, log |-> log]
  /\ UNCHANGED <<now, nextId>>

\* run_in_executor returns (ok) or raises (~ok) for download_video(id).
FetchReturn(id, ok) ==
  /\ id \in fetching
  /\ fetching' = fetching \ {id}
  /\ LET known == id \in DOMAIN tasks
         log == IF known THEN resume_download(tasks[id], ok) ELSE <<>>
         rec == IF ok
                THEN [tasks[id] EXCEPT !.status = Last(log).status,
                                       !.progress = Last(log).progress,
                                       !.video_info = [quality |-> quality_label(tasks[id].quality)],
                                       !.file_path = id,
                                       !.completed_at = now]
                ELSE [tasks[id] EXCEPT !.status = Last(log).status,
                                       !.progress = Last(log).progress,
                                       !.error = "fetch failed"]
         ts == store(tasks, id, rec)
         fin == finally_block(queue, ts, ready)
     IN /\ tasks' = ts
        /\ queue' = fin.queue
        /\ ready' = fin.ready
        /\ resp' = [op |-> "fetch", code |-> IF ok THEN 0 ELSE 1, id |-> id, n |-> 0,
                    log |-> log]
  /\ IF id \notin DOMAIN tasks
     THEN \* KeyError at line 175 (ok) or at line 199 (raise); it leaves the coroutine
          /\ escaped' = escaped \cup {id}
          /\ UNCHANGED terminal_at
     ELSE /\ terminal_at' = Put(terminal_at, id, now)
          /\ UNCHANGED escaped
  /\ processing_task_id' = None
  /\ UNCHANGED <<dirs, now, nextId>>

\* DELETE /api/task/{id}
Cancel(id) ==
  /\ IF id \notin DOMAIN tasks
     THEN /\ resp' = [op |-> "cancel", code |-> 404, id |-> id, n |-> 0, log |-> <<>>]
          /\ UNCHANGED <<tasks, queue, dirs, terminal_at>>
     ELSE /\ queue' = Remove(queue, id)
          /\ dirs' = dirs \ {id}
          /\ tasks' = Del(tasks, {id})
          /\ terminal_at' = Del(terminal_at, {id})
          /\ resp' = [op |-> "cancel", code |-> 200, id |-> id, n |-> 0, log |-> <<>>]
  /\ UNCHANGED <<processing_task_id, ready, fetching, now, nextId, escaped>>

\* The tasks one cycle of cleanup_old_files selects, with the test for
\* completed_at left out.
Expired_any(ts, t) == DOMAIN ts

\* The tasks one cycle of cleanup_old_files selects at time t (lines 260-262).
Expired(ts, t) ==
  {id \in DOMAIN ts : /\ ts[id].completed_at # None
                      /\ t - ts[id].completed_at > CLEANUP_AFTER_HOURS}

\* A cycle that stops after the first expired task (a stray break).
cleanup_cycle_first_only(ts, ds, t, fail) ==
  LET expired == Expired(ts, t)
      first == {id \in expired : \A e \in expired : id <= e}
  IN [tasks |-> Del(ts, first), dirs |-> ds \ first]

\* One cycle of cleanup_old_files at time t (lines 255-277); rmtree raises for
\* the directory of fail (None: for none).  The dict is scanned in insertion
\* order, which is the order of the ids.  A raise leaves the try block: the
\* directories scanned before it are gone and no record is deleted.
cleanup_cycle(ts, ds, t, fail) ==
  LET expired == Expired(ts, t)
  IN IF fail \in expired \cap ds
     THEN [tasks |-> ts, dirs |-> ds \ {id \in expired : id < fail}]
     ELSE [tasks |-> Del(ts, expired), dirs |-> ds \ expired]

\* One cycle of the Reaper.
ReaperCycle(fail) ==
  /\ fail = None \/ fail \in Expired(tasks, now) \cap dirs
  /\ LET r == cleanup_cycle(tasks, dirs, now, fail)
     IN /\ tasks' = r.tasks
        /\ dirs' = r.dirs
        /\ terminal_at' = Del(terminal_at, DOMAIN tasks \ DOMAIN r.tasks)
  /\ resp' = [op |-> "reap", code |-> 0, id |-> fail, log |-> <<>>,
              n |-> Cardinality(DOMAIN tasks \ DOMAIN cleanup_cycle(tasks, dirs, now, fail).tasks)]
  /\ UNCHANGED <<queue, processing_task_id, ready, fetching, now, nextId, escaped>>

\* An hour passes.
Tick ==
  /\ now < MaxTime
  /\ now' = now + 1
  /\ resp' = [op |-> "tick", code |-> 0, id |-> None, n |-> 0, log |-> <<>>]
  /\ UNCHANGED <<tasks, queue, processing_task_id, ready, fetching, dirs, nextId,
                 terminal_at, escaped>>

\* queue.index(id) + 1
IndexOf(q, id) == CHOOSE i \in 1..Len(q) : q[i] = id /\ \A j \in 1..(i - 1) : q[j] # id

\* GET /api/status/{id}: the status code and the body; a key the body does not
\* hold is None, NoError or NoVideoInfo.
get_task_status(id) ==
  IF id \notin DOMAIN tasks
  THEN [code |-> 404, status |-> "", progress |-> None, queue_position |-> None,
        video_info |-> NoVideoInfo, error |-> NoError]
  ELSE [code |-> 200,
        status |-> tasks[id].status,
        progress |-> tasks[id].progress,
        queue_position |-> IF tasks[id].status = "queued" /\ id \in Range(queue)
                           THEN IndexOf(queue, id) ELSE None,
        video_info |-> IF tasks[id].status = "completed"
                       THEN tasks[id].video_info ELSE NoVideoInfo,
        error |-> IF tasks[id].status = "error" THEN tasks[id].error ELSE NoError]

download_file_no_status_check(id) ==
  IF id \notin DOMAIN tasks THEN 404
  ELSE IF tasks[id].file_path = None \/ tasks[id].file_path \notin dirs THEN 404
  ELSE 200

\* download_file: the HTTP status GET /api/download/{id} answers with in the
\* current state (200 stands for the file response).  The file of task id
\* lives in the directory of task id, so it exists iff that directory does.
download_file(id) ==
  IF id \notin DOMAIN tasks THEN 404
  ELSE IF tasks[id].status # "completed" THEN 400
  ELSE IF tasks[id].file_path = None \/ tasks[id].file_path \notin dirs THEN 404
  ELSE 200

Next ==
  \/ \E url \in Urls, quality \in Qualities : Submit(url, quality, MaxTasks)
  \/ StartDownload
  \/ \E id \in 1..MaxTasks, ok \in BOOLEAN : FetchReturn(id, ok)
  \/ \E id \in 1..MaxTasks : Cancel(id)
  \/ \E fail \in 0..MaxTasks : ReaperCycle(fail)
  \/ Tick

Spec == Init /\ [][Next]_vars

\* The scheduler under every request the API accepts, with the clock standing
\* still and the Reaper asleep.
NextL ==
  \/ \E url \in Urls, quality \in Qualities : Submit(url, quality, MaxTasksL)
  \/ StartDownload
  \/ \E id \in 1..MaxTasksL, ok \in BOOLEAN : FetchReturn(id, ok)
  \/ \E id \in 1..MaxTasksL : Cancel(id)

\* asyncio runs every coroutine it created (call_soon), and every call handed
\* to the executor returns or raises.
Fairness ==
  /\ WF_vars(StartDownload)
  /\ \A id \in 1..MaxTasksL : WF_vars(\E ok \in BOOLEAN : FetchReturn(id, ok))

LiveSpec == Init /\ [][NextL]_vars /\ Fairness

\* The scheduler alone, with enough ids to fill the queue to MAX_QUEUE_SIZE
\* behind a task in flight: the clock stands still, the Reaper sleeps, every
\* url is supported, and Cancel is called for queued tasks and for an id
\* that was never issued.
NextQ ==
  \/ \E url \in UrlsQ, quality \in Qualities : Submit(url, quality, MaxTasksQ)
  \/ StartDownload
  \/ \E id \in 1..MaxTasksQ, ok \in BOOLEAN : FetchReturn(id, ok)
  \/ \E id \in Range(queue) \cup {nextId} : Cancel(id)

QueueSpec == Init /\ [][NextQ]_vars

\* The scheduler under requests for a quality below, at and above MAX_QUALITY,
\* every url supported, no Cancel, the clock standing still.
NextV ==
  \/ \E url \in UrlsQ, quality \in QualitiesV : Submit(url, quality, MaxTasksV)
  \/ StartDownload
  \/ \E id \in 1..MaxTasksV, ok \in BOOLEAN : FetchReturn(id, ok)

QualitySpec == Init /\ [][NextV]_vars

\* ---------------------------------------------------------------- claims

Processing == {id \in DOMAIN tasks : tasks[id].status = "processing"}

\* C1: in every reachable state at most one task has status 'processing'.
C1_AtMostOneProcessing == Cardinality(Processing) <= 1

\* Only Submit calls have been made since the empty system: every id issued is
\* still stored and queued, and no coroutine has started.
OnlySubmits ==
  /\ DOMAIN tasks = 1..(nextId - 1)
  /\ \A id \in DOMAIN tasks : tasks[id].status = "queued"
  /\ Len(queue) + Len(ready) = nextId - 1
  /\ fetching = {} /\ escaped = {}

\* C2 (as stated): from the empty system, after k Submit calls and nothing else,
\* k <= MAX_QUEUE_SIZE calls were accepted and the queue holds k ids.
C2_QueueGrowsToCapacity ==
  OnlySubmits => (Len(queue) = nextId - 1 /\ nextId - 1 <= MAX_QUEUE_SIZE)

\* C2 (amended): a Submit with fewer than MAX_QUEUE_SIZE ids queued is accepted
\* and creates one queued task with a fresh id; the queue is one longer
\* afterwards if processing_task_id was set and as long as before otherwise
\* (the handler dispatches the head at once).  A Submit with MAX_QUEUE_SIZE ids
\* queued answers 429 and leaves the store and the queue as they were.
C2_SubmitGate ==
  [][resp'.op = "submit" =>
       IF Len(queue) >= MAX_QUEUE_SIZE
       THEN resp'.code = 429 /\ tasks' = tasks /\ queue' = queue /\ nextId' = nextId
       ELSE /\ resp'.code = 200
            /\ resp'.id \notin DOMAIN tasks
            /\ DOMAIN tasks' = DOMAIN tasks \cup {resp'.id}
            /\ tasks'[resp'.id].status = "queued"
            /\ \A id \in DOMAIN tasks : tasks'[id] = tasks[id]
            /\ Len(queue') = (IF processing_task_id = None THEN Len(queue)
                              ELSE Len(queue) + 1)]_vars

\* A Submit was turned away at a full queue.
C2_Witness ==
  /\ resp.op = "submit" /\ resp.code = 429
  /\ Len(queue) = MAX_QUEUE_SIZE
  /\ processing_task_id # None

\* C3: of two stored tasks, the later submitted has not left the queue while
\* the earlier is still in it, and is not past 'queued' while the earlier is
\* still 'queued'.
C3_FifoService ==
  \A a \in DOMAIN tasks, b \in DOMAIN tasks :
    a < b => /\ (b \notin Range(queue) => a \notin Range(queue))
             /\ (tasks[b].status # "queued" => tasks[a].status # "queued")

\* The second task is being fetched, the first is done and the third waits.
C3_Witness ==
  /\ DOMAIN tasks = {1, 2, 3}
  /\ tasks[1].status \in Terminal
  /\ tasks[2].status = "processing"
  /\ queue = <<3>>

Supported(id) == detect_platform(tasks[id].url) # "unknown"

\* C4: of two stored tasks with supported urls, the later submitted is not
\* terminal while the earlier is not.
C4_CompletionOrder ==
  \A a \in DOMAIN tasks, b \in DOMAIN tasks :
    (a < b /\ Supported(a) /\ Supported(b) /\ tasks[b].status \in Terminal)
      => tasks[a].status \in Terminal

\* C5: every stored task is eventually terminal or removed (a task leaves the
\* store by Cancel, or by the Reaper once it is completed), and whenever an id
\* waits in the queue some download_video coroutine is still to run or to
\* resume, whose finally block will dispatch the head of the queue.
C5_NoStarvation ==
  /\ \A id \in 1..MaxTasksL :
       (id \in DOMAIN tasks) ~> (id \notin DOMAIN tasks \/ tasks[id].status \in Terminal)
  /\ [](queue # <<>> => (ready # <<>> \/ fetching # {}))

\* Three tasks were served one after the other: the last has just come back
\* from the Fetcher and all are terminal.
C5_Witness ==
  /\ Cardinality(DOMAIN tasks) >= 3
  /\ \A id \in DOMAIN tasks : tasks[id].status \in Terminal
  /\ resp.op = "fetch"
  /\ queue = <<>> /\ ready = <<>> /\ fetching = {}

\* C6: completed_at is set exactly on the terminal tasks.
C6_CompletedAtIffTerminal ==
  \A id \in DOMAIN tasks :
    (tasks[id].completed_at # None) <=> (tasks[id].status \in Terminal)

\* C7: a Reaper cycle removes the record and the directory of every task
\* that became terminal more than CLEANUP_AFTER_HOURS ago.
C7_ReapedAfterRetention ==
  [][resp'.op = "reap" =>
       \A id \in DOMAIN tasks :
         (tasks[id].status \in Terminal /\ now - terminal_at[id] > CLEANUP_AFTER_HOURS)
           => (id \notin DOMAIN tasks' /\ id \notin dirs')]_vars

C9_ReaperOnlyTerminal ==
  [][resp'.op = "reap" =>
       /\ queue' = queue
       /\ processing_task_id' = processing_task_id
       /\ \A id \in DOMAIN tasks :
            /\ tasks[id].status \in {"queued", "processing"}
                 => (id \in DOMAIN tasks' /\ (id \in dirs => id \in dirs'))
            /\ id \in DOMAIN tasks' => tasks'[id].status = tasks[id].status
            /\ id \notin DOMAIN tasks' => tasks[id].status \in Terminal]_vars

\* A Reaper cycle has removed a task while another was queued and a third
\* was being fetched.
C9_Witness ==
  /\ resp.op = "reap" /\ resp.n > 0
  /\ queue # <<>>
  /\ Processing # {}

\* C10: in a Reaper cycle every expired task other than the one whose directory
\* could not be deleted loses its record and its directory, and no record is
\* kept whose directory the cycle deleted.
C10_FailureIsolated ==
  [][resp'.op = "reap" =>
       /\ \A id \in Expired(tasks, now) :
            id # resp'.id => (id \notin DOMAIN tasks' /\ id \notin dirs')
       /\ \A id \in DOMAIN tasks' : id \in dirs => id \in dirs']_vars

\* C11: every id in the queue names a stored task whose status is 'queued',
\* and no id is in the queue twice.
C11_QueueConsistent ==
  /\ \A i \in 1..Len(queue) :
       queue[i] \in DOMAIN tasks /\ tasks[queue[i]].status = "queued"
  /\ \A i \in 1..Len(queue), j \in 1..Len(queue) : queue[i] = queue[j] => i = j

\* A queued task has just been cancelled while another waits behind a task
\* in flight.
C11_Witness ==
  /\ resp.op = "cancel" /\ resp.code = 200
  /\ resp.id \notin fetching /\ resp.id \notin Range(ready)
  /\ queue # <<>>
  /\ fetching # {}

QueuedIn(id) == id \in DOMAIN tasks /\ tasks[id].status = "queued"

\* C12: after every step the status operation reports, for every task whose
\* status is 'queued', a queue_position at which the queue holds its id; and
\* when an earlier task becomes 'processing' the position reported for a task
\* that stays queued is one less than before.
C12_QueuePosition ==
  [][/\ \A id \in DOMAIN tasks' :
          tasks'[id].status = "queued"
            => /\ get_task_status(id)'.queue_position # None
               /\ queue'[get_task_status(id)'.queue_position] = id
     /\ \A a \in DOMAIN tasks, b \in DOMAIN tasks :
          (/\ a < b
           /\ tasks[a].status = "queued" /\ a \in DOMAIN tasks'
           /\ tasks'[a].status = "processing"
           /\ get_task_status(b).queue_position # None
           /\ QueuedIn(b)')
            => get_task_status(b)'.queue_position = get_task_status(b).queue_position - 1]_vars

\* C13: Cancel of an id the store does not hold answers 404 and changes
\* nothing.  Cancel of a queued task deletes its record and takes its id out of
\* the queue; every other queued task keeps its reported position if it was
\* ahead and is reported one position lower if it was behind, no other record
\* changes, and processing_task_id stays as it was.
C13_CancelQueued ==
  [][resp'.op = "cancel" =>
       IF resp'.id \notin DOMAIN tasks
       THEN /\ resp'.code = 404
            /\ tasks' = tasks /\ queue' = queue /\ dirs' = dirs
            /\ processing_task_id' = processing_task_id
       ELSE resp'.id \in Range(queue) =>
            /\ resp'.code = 200
            /\ DOMAIN tasks' = DOMAIN tasks \ {resp'.id}
            /\ \A id \in DOMAIN tasks' : tasks'[id] = tasks[id]
            /\ Range(queue') = Range(queue) \ {resp'.id}
            /\ Len(queue') = Len(queue) - 1
            /\ \A b \in Range(queue') :
                 get_task_status(b)'.queue_position =
                   (IF get_task_status(b).queue_position
                         < get_task_status(resp'.id).queue_position
                    THEN get_task_status(b).queue_position
                    ELSE get_task_status(b).queue_position - 1)
            /\ processing_task_id' = processing_task_id]_vars

\* A task has just been cancelled from the middle of the queue: one queued
\* task was submitted before it and one after it.
C13_Witness ==
  /\ resp.op = "cancel" /\ resp.code = 200
  /\ \E i \in 1..Len(queue), j \in 1..Len(queue) :
       queue[i] < resp.id /\ resp.id < queue[j]

\* C14: when the Fetcher call of a task that is in the store raises, the task
\* has status 'error' and a non-empty error message afterwards.  In every state download_file answers 400
\* for every task that is queued, processing or in error, and a task in error
\* carries an error message.
C14_FetchErrorNotReady ==
  /\ [](\A id \in DOMAIN tasks :
          /\ tasks[id].status \in {"queued", "processing", "error"}
               => download_file(id) = 400
          /\ tasks[id].status = "error" => tasks[id].error # NoError)
  /\ [][(resp'.op = "fetch" /\ resp'.code = 1 /\ resp'.id \in DOMAIN tasks) =>
          /\ resp'.id \in DOMAIN tasks'
          /\ tasks'[resp'.id].status = "error"
          /\ tasks'[resp'.id].error # NoError]_vars

\* The Fetcher has just raised for a task that is still in the store.
C14_Witness ==
  /\ resp.op = "fetch" /\ resp.code = 1
  /\ resp.id \in DOMAIN tasks
  /\ tasks[resp.id].status = "error"
  /\ resp.id \in dirs

\* C15: a task whose url holds none of the platform needles never has a
\* Fetcher call in flight and never has a task directory.  When its
\* download_video runs, the task gets status 'error' in that same step,
\* processing_task_id is None afterwards, and if the queue is not empty its
\* head is taken out and its download_video is created.
C15_UnknownFailsBeforeFetch ==
  /\ [](\A id \in DOMAIN tasks :
          Needles(tasks[id].url) = {} => id \notin fetching /\ id \notin dirs)
  /\ [][(/\ resp'.op = "start"
         /\ resp'.id \in DOMAIN tasks
         /\ Needles(tasks[resp'.id].url) = {}) =>
          /\ tasks'[resp'.id].status = "error"
          /\ tasks'[resp'.id].error # NoError
          /\ fetching' = fetching /\ dirs' = dirs
          /\ processing_task_id' = None
          /\ IF queue = <<>>
             THEN queue' = queue /\ ready' = Tail(ready)
             ELSE queue' = Tail(queue) /\ ready' = Tail(ready) \o <<Head(queue)>>]_vars

\* download_video of a task with an unsupported url has just failed and the
\* next download_video is waiting to run.
C15_Witness ==
  /\ resp.op = "start"
  /\ resp.id \in DOMAIN tasks
  /\ Needles(tasks[resp.id].url) = {}
  /\ tasks[resp.id].status = "error"
  /\ ready # <<>> /\ Head(ready) > resp.id

\* The statuses task id goes through in the step just taken: its status before
\* the step followed by the status after each write of the step.
StatusPath(id) ==
  <<tasks[id].status>> \o
    (IF resp'.op \in {"start", "fetch"} /\ resp'.id = id
     THEN [i \in 1..Len(resp'.log) |-> resp'.log[i].status]
     ELSE <<>>)

StatusEdge(a, b) ==
  \/ a = b
  \/ a = "queued" /\ b = "processing"
  \/ a = "processing" /\ b \in Terminal

\* C16: in every step, every write to a task's status keeps it or moves it
\* along queued -> processing -> completed | error, also within one step of
\* download_video; the record of a task that is completed or in error is the
\* same after the step if the task is still in the store; and a record leaves
\* the store only in a Cancel or a Reaper step.
C16_StatusLifecycle ==
  [][\A id \in DOMAIN tasks :
       /\ \A i \in 1..(Len(StatusPath(id)) - 1) :
            StatusEdge(StatusPath(id)[i], StatusPath(id)[i + 1])
       /\ id \in DOMAIN tasks' => tasks'[id].status = Last(StatusPath(id))
       /\ (tasks[id].status \in Terminal /\ id \in DOMAIN tasks')
            => tasks'[id] = tasks[id]
       /\ id \notin DOMAIN tasks' => resp'.op \in {"cancel", "reap"}]_vars

\* One task completed at an earlier time and is still completed, while the
\* download_video of another task has just ended in error.
C16_Witness ==
  \E a \in DOMAIN tasks, b \in DOMAIN tasks :
    /\ tasks[a].status = "completed" /\ tasks[a].completed_at < now
    /\ tasks[b].status = "error"
    /\ resp.op \in {"start", "fetch"} /\ resp.id = b

\* The progress values task id goes through in the step just taken.
ProgressPath(id) ==
  <<tasks[id].progress>> \o
    (IF resp'.op \in {"start", "fetch"} /\ resp'.id = id
     THEN [i \in 1..Len(resp'.log) |-> resp'.log[i].progress]
     ELSE <<>>)

\* C17: the progress of every task is in 0..100, is 0 while the task is queued
\* and is 100 exactly when the task is completed; no write to progress lowers
\* it, also within one step of download_video; and the write of status 'error'
\* leaves progress at the value written last before it.
C17_Progress ==
  /\ [](\A id \in DOMAIN tasks :
          /\ tasks[id].progress \in 0..100
          /\ tasks[id].status = "queued" => tasks[id].progress = 0
          /\ tasks[id].status = "completed" <=> tasks[id].progress = 100)
  /\ [][\A id \in DOMAIN tasks :
          /\ \A i \in 1..(Len(ProgressPath(id)) - 1) :
               /\ ProgressPath(id)[i] <= ProgressPath(id)[i + 1]
               /\ StatusPath(id)[i + 1] = "error"
                    => ProgressPath(id)[i + 1] = ProgressPath(id)[i]
          /\ id \in DOMAIN tasks' => tasks'[id].progress = Last(ProgressPath(id))]_vars

\* A task failed in its Fetcher call and shows progress 30, the last value
\* written before the call, while another task is completed.
C17_Witness ==
  \E a \in DOMAIN tasks, b \in DOMAIN tasks :
    /\ tasks[a].status = "error" /\ tasks[a].progress = 30
    /\ tasks[b].status = "completed" /\ tasks[b].progress = 100
    /\ resp.op = "fetch" /\ resp.code = 1 /\ resp.id = a

\* C18: an id that has been issued and is not in the task store is, after any
\* step, still not in the task store and not in the queue.
C18_RemovedStaysRemoved ==
  [][\A id \in 1..(nextId - 1) :
       id \notin DOMAIN tasks
         => id \notin DOMAIN tasks' /\ id \notin Range(queue')]_vars

\* download_video has just run, from its start or after its Fetcher call, for a
\* task that had been removed from the store, and the task is still absent.
C18_Witness ==
  /\ resp.op \in {"start", "fetch"}
  /\ resp.id \in escaped
  /\ resp.id \notin DOMAIN tasks
  /\ resp.id \notin Range(queue)

\* C19: no step of download_video ends with an exception leaving the
\* coroutine, and whenever the Fetcher call of a task raises, the task is in
\* the store afterwards with status 'error' and an error message.
C19_ErrorsCaptured ==
  [][resp'.op \in {"start", "fetch"} =>
       /\ escaped' = escaped
       /\ (resp'.op = "fetch" /\ resp'.code = 1) =>
            /\ resp'.id \in DOMAIN tasks'
            /\ tasks'[resp'.id].status = "error"
            /\ tasks'[resp'.id].error # NoError]_vars

\* The label the claim expects for each requested quality.
ExpectedLabel(q) ==
  CASE q = 144 -> "144p"
    [] q = 720 -> "720p"
    [] q = 1080 -> "720p"

\* C20: every completed task has video_info.quality equal to the label of its
\* requested quality capped at MAX_QUALITY (144 -> '144p', 720 -> '720p',
\* 1080 -> '720p'); and a Submit made while the queue holds fewer than
\* MAX_QUEUE_SIZE ids is accepted and stores the requested quality unchanged,
\* whatever the quality is.
C20_QualityCapped ==
  /\ [](\A id \in DOMAIN tasks :
          /\ tasks[id].quality \in QualitiesV
          /\ tasks[id].status = "completed"
               => get_task_status(id).video_info.quality = ExpectedLabel(tasks[id].quality))
  /\ [][(resp'.op = "submit" /\ Len(queue) < MAX_QUEUE_SIZE) =>
          /\ resp'.code = 200
          /\ resp'.id \in DOMAIN tasks' \ DOMAIN tasks]_vars

\* One task completed with a request above the ceiling and one with a request
\* below it.
C20_Witness ==
  \E a \in DOMAIN tasks, b \in DOMAIN tasks :
    /\ tasks[a].quality = 1080 /\ tasks[a].status = "completed"
    /\ tasks[a].video_info.quality = "720p"
    /\ tasks[b].quality = 144 /\ tasks[b].status = "completed"
    /\ tasks[b].video_info.quality = "144p"

\* C21: the queue never holds more than MAX_QUEUE_SIZE ids, and a Submit that
\* answers 429 was made at a full queue and leaves the task store, the queue,
\* processing_task_id and the coroutines waiting to run as they were.
C21_QueueBounded ==
  /\ [](Len(queue) <= MAX_QUEUE_SIZE)
  /\ [][(resp'.op = "submit" /\ resp'.code = 429) =>
          /\ Len(queue) = MAX_QUEUE_SIZE
          /\ tasks' = tasks /\ queue' = queue
          /\ processing_task_id' = processing_task_id
          /\ ready' = ready /\ nextId' = nextId]_vars

\* A Submit has just been turned away: MAX_QUEUE_SIZE tasks wait in the queue
\* behind the one whose Fetcher call is in flight.
C21_Witness ==
  /\ resp.op = "submit" /\ resp.code = 429
  /\ Len(queue) = MAX_QUEUE_SIZE
  /\ fetching # {}
  /\ Cardinality(DOMAIN tasks) = MAX_QUEUE_SIZE + 1

\* C22: whenever processing_task_id is not None it is the id of a task in the
\* store with status 'processing', and every task with status 'processing' is
\* the one processing_task_id names.
C22_MarkerAgrees ==
  /\ processing_task_id # None =>
       /\ processing_task_id \in DOMAIN tasks
       /\ tasks[processing_task_id].status = "processing"
  /\ \A id \in Processing : processing_task_id = id

====
